---- MODULE Spec2Model ----
(***************************************************************************)
(* A model of the equity screener (quant.py: add_indicators,               *)
(* get_clean_symbol, run_pro_simulation) and of the intrinsic-value        *)
(* estimator (wb.py: analyze_stock).                                       *)
(*                                                                         *)
(* Numbers.  Prices are integers.  Every derived quantity the model keeps  *)
(* is an exact rational [nan, n, d] (d > 0) or the NaN value; floating     *)
(* point rounding is not modelled.  Quantities that need a square root     *)
(* (rolling standard deviation, the bands, the distance to the lower band) *)
(* are modelled by their definedness only.                                 *)
(***************************************************************************)
EXTENDS Integers, Sequences, FiniteSets, TLC

VARIABLES
    \* ---- run_pro_simulation (Spec) ----
    pc,                 \* position in run_pro_simulation
    csv,                \* the reference table on disk: unreadable, or its rows
    symbols_data,       \* unique (Symbol, Sector_Index) rows, in table order
    unique_sectors,     \* distinct Sector_Index cells, in order of appearance
    market_bullish,
    nifty_3d_ret,
    sector_bullish_map,
    si,                 \* next position of the sector loop
    idx,                \* next position of the symbol loop
    scanner_results,
    s_df,               \* the ranked frame
    log_entries,
    saved,              \* content of the log file ("" rows until written)
    crash_site,         \* where an uncaught exception left the run, or "none"
    calls,              \* history: every request made to the data source
    sym_trace,          \* history: per symbol iteration, what happened
    \* ---- add_indicators called on its own (IndSpec) ----
    i_pc,               \* "call" | "returned" | "read"
    i_df,               \* the argument data frame
    i_out,              \* what add_indicators returned
    i_latest,           \* df.iloc[-1] of the returned frame, as the scan reads it
    \* ---- analyze_stock (ValSpec) ----
    v_pc,               \* position in analyze_stock
    v_src,              \* what the data source holds for the ticker
    eps_row,
    eps_data,
    trend,              \* [slope, reg_start, reg_end] of the fitted line
    cagr,
    current_pe,
    avg_pe,
    projected_pe,
    end_eps,            \* a local that is unbound until line 124
    verdict,
    out,                \* what has been printed, in order
    fetched             \* which data has been requested from the source

svars == <<pc, csv, symbols_data, unique_sectors, market_bullish, nifty_3d_ret,
           sector_bullish_map, si, idx, scanner_results, s_df, log_entries,
           saved, crash_site, calls, sym_trace>>
ivars == <<i_pc, i_df, i_out, i_latest>>
vvars == <<v_pc, v_src, eps_row, eps_data, trend, cagr, current_pe, avg_pe,
           projected_pe, end_eps, verdict, out, fetched>>
vars == <<svars, ivars, vvars>>

(***************************************************************************)
(* Bounds                                                                  *)
(***************************************************************************)
MaxBars == 22           \* longest price series handed to add_indicators alone
MaxRows == 2            \* rows of the reference table
IndexBars == 60         \* bars of a full index history
SymbolBars == 23        \* bars of a full symbol history
MaxYears == 3           \* annual columns of the income statement

(***************************************************************************)
(* Program constants                                                       *)
(***************************************************************************)
MinBars == 20           \* quant.py:17  len(df) < 20
RsiWindow == 14         \* quant.py:19  rolling(14)
BandWindow == 20        \* quant.py:22  rolling(20)
AtrWindow == 14         \* quant.py:29  rolling(14)
RegimeWindow == 50      \* quant.py:47, 57  rolling(50)
TopN == 10              \* quant.py:90  head(10)

(***************************************************************************)
(* Numbers: exact rationals and NaN                                        *)
(***************************************************************************)
NaNv == [nan |-> TRUE, n |-> 0, d |-> 1]
Num(a, b) == [nan |-> FALSE, n |-> a, d |-> b]
Int2Num(a) == Num(a, 1)
IsNaN(x) == x.nan
\* IEEE comparisons: any comparison with NaN is False.
NumGt(x, y) == ~x.nan /\ ~y.nan /\ x.n * y.d > y.n * x.d
NumLe(x, y) == ~x.nan /\ ~y.nan /\ x.n * y.d <= y.n * x.d
NumEq(x, y) == ~x.nan /\ ~y.nan /\ x.n * y.d = y.n * x.d

Max2(a, b) == IF a >= b THEN a ELSE b
AbsI(a) == IF a >= 0 THEN a ELSE -a

(***************************************************************************)
(* Data frames.  A frame of price history is [cols, bars]: cols says       *)
(* whether the frame carries the plain Close/High/Low columns, bars is the *)
(* chronological sequence of [Close, High, Low].                           *)
(***************************************************************************)
Bar(c) == [Close |-> c, High |-> c + 1, Low |-> c - 1]
EmptyFrame == [cols |-> TRUE, bars |-> <<>>]

\* df['Close'].diff(): NaN on the first row; both where(...) calls replace
\* that NaN by 0 because NaN > 0 and NaN < 0 are False.
Delta(bars, j) == IF j = 1 THEN 0 ELSE bars[j].Close - bars[j - 1].Close
GainAt(bars, j) == IF Delta(bars, j) > 0 THEN Delta(bars, j) ELSE 0
LossAt(bars, j) == IF Delta(bars, j) < 0 THEN -Delta(bars, j) ELSE 0
CloseAt(bars, j) == bars[j].Close

\* true range of row j: max over the three columns, skipping the NaN that
\* shift() leaves in row 1.
TrueRange(bars, j) ==
    IF j = 1 THEN bars[j].High - bars[j].Low
    ELSE Max2(bars[j].High - bars[j].Low,
              Max2(AbsI(bars[j].High - bars[j - 1].Close),
                   AbsI(bars[j].Low - bars[j - 1].Close)))

\* rolling(w) at row j: defined from row w on; RollSum is the window's sum
\* of the column Col (the mean times w).
RollDefined(j, w) == j >= w
ColAt(col, bars, j) ==
    CASE col = "gain" -> GainAt(bars, j)
      [] col = "loss" -> LossAt(bars, j)
      [] col = "close" -> CloseAt(bars, j)
      [] col = "true range" -> TrueRange(bars, j)
RECURSIVE SumCol(_, _, _, _)
SumCol(col, bars, lo, hi) ==
    IF lo > hi THEN 0 ELSE ColAt(col, bars, hi) + SumCol(col, bars, lo, hi - 1)
RollSum(col, bars, j, w) == SumCol(col, bars, j - w + 1, j)

\* 100 - (100 / (1 + (gain/loss))) in IEEE arithmetic, on the rolling sums g
\* and l (the two means share the divisor 14):
\*   l = 0, g = 0 : 0/0 = NaN, and NaN propagates;
\*   l = 0, g > 0 : g/0 = inf, 100/inf = 0, RSI = 100;
\*   l > 0        : 100 - 100*l/(l+g) = 100*g/(g+l).
RsiOf(g, l) ==
    IF l = 0
    THEN IF g = 0 THEN NaNv ELSE Int2Num(100)
    ELSE Num(100 * g, g + l)

\* One row of the frame after the indicator columns are assigned.  Date is
\* the row's index label.  band says whether SMA20, Std, Lower and Upper are
\* defined (they share the window).
IndicatorRow(bars, j) ==
    [ Close |-> bars[j].Close,
      Date  |-> j,
      RSI   |-> IF RollDefined(j, RsiWindow)
                THEN RsiOf(RollSum("gain", bars, j, RsiWindow),
                           RollSum("loss", bars, j, RsiWindow))
                ELSE NaNv,
      SMA20 |-> IF RollDefined(j, BandWindow)
                THEN Num(RollSum("close", bars, j, BandWindow), BandWindow)
                ELSE NaNv,
      band  |-> RollDefined(j, BandWindow),
      ATR   |-> IF RollDefined(j, AtrWindow)
                THEN Num(RollSum("true range", bars, j, AtrWindow), AtrWindow)
                ELSE NaNv ]

RowComplete(r) == ~IsNaN(r.RSI) /\ ~IsNaN(r.SMA20) /\ r.band /\ ~IsNaN(r.ATR)

\* df.dropna(): rows with any undefined value are removed.
dropna(rows) == SelectSeq(rows, RowComplete)

\* The result of a call: raised (an exception left the function) or the
\* returned rows.
Returned(rows) == [raised |-> FALSE, rows |-> rows]
Raised == [raised |-> TRUE, rows |-> <<>>]

\* add_indicators with `return df` on its first line: short input comes
\* back as it is, without indicator values
add_indicators_returns_input(df) ==
    IF Len(df.bars) = 0 \/ Len(df.bars) < MinBars
    THEN Returned([j \in 1..Len(df.bars) |->
                    [Close |-> df.bars[j].Close, Date |-> j, RSI |-> NaNv,
                     SMA20 |-> NaNv, band |-> FALSE, ATR |-> NaNv]])
    ELSE IF ~df.cols THEN Raised
    ELSE Returned(CHOOSE rows \in {dropna([j \in 1..Len(bars) |-> IndicatorRow(bars, j)]) :
                                     bars \in {df.bars}} : TRUE)

\* quant.py:18-30 on the bars of a frame that has its columns
WithIndicators(bars) == dropna([j \in 1..Len(bars) |-> IndicatorRow(bars, j)])

\* (the set constructor binds the bars as a value, computed once)
add_indicators(df) ==
    IF Len(df.bars) = 0 \/ Len(df.bars) < MinBars THEN Returned(<<>>)
    ELSE IF ~df.cols THEN Raised           \* df['Close'] raises KeyError
    ELSE Returned(CHOOSE rows \in {WithIndicators(bars) : bars \in {df.bars}} : TRUE)

(***************************************************************************)
(* Strings are sequences of characters, so that strip, replace and the     *)
(* suffix of get_clean_symbol are computed.                                *)
(***************************************************************************)
RECURSIVE lstrip(_)
lstrip(s) == IF s # <<>> /\ s[1] = " " THEN lstrip(Tail(s)) ELSE s
RECURSIVE rstrip(_)
rstrip(s) == IF s # <<>> /\ s[Len(s)] = " " THEN rstrip(SubSeq(s, 1, Len(s) - 1)) ELSE s
strip(s) == rstrip(lstrip(s))

RECURSIVE replace(_, _, _)
\* str.replace(old, new): every non-overlapping occurrence, left to right.
replace(s, old, new) ==
    IF Len(s) < Len(old) THEN s
    ELSE IF SubSeq(s, 1, Len(old)) = old
         THEN new \o replace(SubSeq(s, Len(old) + 1, Len(s)), old, new)
         ELSE <<s[1]>> \o replace(Tail(s), old, new)

get_clean_symbol(symbol) ==
    replace(replace(strip(symbol), <<"M", "&", "M">>, <<"M", "%", "2", "6", "M">>),
            <<"M", "_", "M">>, <<"M", "%", "2", "6", "M">>)
        \o <<".", "N", "S">>

NSEI == <<"^", "N", "S", "E", "I">>
CNXIT == <<"^", "C", "N", "X", "I", "T">>
TCS == <<"T", "C", "S">>
MandM == <<"M", "&", "M">>

\* A Sector_Index cell: a string, or the float NaN pandas reads from an empty
\* cell (str = FALSE).
StrCell(v) == [str |-> TRUE, v |-> v]
FloatNaN == [str |-> FALSE, v |-> <<"n", "a", "n">>]

(***************************************************************************)
(* The reference tables of the model: every sequence of at most MaxRows    *)
(* rows drawn from TableRows (repeated rows included).                     *)
(***************************************************************************)
TableRows ==
    { [Symbol |-> TCS, Sector_Index |-> StrCell(CNXIT)],
      [Symbol |-> MandM, Sector_Index |-> StrCell(CNXIT)],
      [Symbol |-> TCS, Sector_Index |-> StrCell(NSEI)],
      [Symbol |-> MandM, Sector_Index |-> FloatNaN] }
Tables == UNION { [1..n -> TableRows] : n \in 0..MaxRows }

\* a table read without removing repeated rows
drop_duplicates_keeps_all(rows) == rows

RECURSIVE drop_duplicates(_)
\* keeps the first occurrence of every row, in order
drop_duplicates(rows) ==
    IF rows = <<>> THEN <<>>
    ELSE LET front == drop_duplicates(SubSeq(rows, 1, Len(rows) - 1))
             last == rows[Len(rows)]
         IN IF \E k \in 1..Len(front) : front[k] = last THEN front
            ELSE Append(front, last)

\* symbols_data['Sector_Index'].unique(): distinct cells, first appearance
unique(rows) == drop_duplicates([k \in 1..Len(rows) |-> rows[k].Sector_Index])

(***************************************************************************)
(* The data source.  yf.download either raises or returns a frame; the     *)
(* frames of the model are named by [kind, len, cols].                     *)
(***************************************************************************)
Series(kind, len) ==
    [j \in 1..len |->
        Bar(CASE kind = "up" -> 100 + j
              [] kind = "down" -> 200 - j
              [] kind = "zig" -> 100 + j + 2 * (j % 2)
              [] OTHER -> 100)] \o <<>>
Resp(raise, kind, len, cols) == [raise |-> raise, kind |-> kind, len |-> len, cols |-> cols]
FrameOf(r) == [cols |-> r.cols, bars |-> Series(r.kind, r.len)]

\* period="100d": the index history
IndexResponses ==
    { Resp(TRUE, "none", 0, TRUE),
      Resp(FALSE, "flat", 0, TRUE),
      Resp(FALSE, "up", RegimeWindow - 1, TRUE),
      Resp(FALSE, "up", IndexBars, TRUE),
      Resp(FALSE, "down", IndexBars, TRUE) }
\* period="60d": a symbol's history
SymbolResponses ==
    { Resp(TRUE, "none", 0, TRUE),
      Resp(FALSE, "flat", 0, TRUE),
      Resp(FALSE, "up", MinBars - 1, TRUE),
      Resp(FALSE, "up", SymbolBars, FALSE),
      Resp(FALSE, "flat", SymbolBars, TRUE),
      Resp(FALSE, "up", SymbolBars, TRUE),
      Resp(FALSE, "down", SymbolBars, TRUE),
      Resp(FALSE, "zig", SymbolBars, TRUE) }

Call(ticker, period, r) == [ticker |-> ticker, period |-> period, resp |-> r]

(***************************************************************************)
(* run_pro_simulation                                                      *)
(***************************************************************************)
\* x['Close'].iloc[-1] > x['Close'].rolling(50).mean().iloc[-1] on a
\* non-empty frame; the mean is NaN below 50 bars and NaN comparisons are
\* False.
Regime(bars) ==
    LET n == Len(bars)
    IN /\ RollDefined(n, RegimeWindow)
       /\ bars[n].Close * RegimeWindow > RollSum("close", bars, n, RegimeWindow)

\* x.pct_change(3).iloc[-1] of a non-empty column of closes
pct_change3(rows) ==
    LET n == Len(rows)
    IN IF n < 4 THEN NaNv
       ELSE Num(rows[n].Close - rows[n - 3].Close, rows[n - 3].Close)

\* (a - b) * 100
rs_trend_of(a, b) ==
    IF IsNaN(a) \/ IsNaN(b) THEN NaNv
    ELSE Num(100 * (a.n * b.d - b.n * a.d), a.d * b.d)

\* sector_bullish_map.get(sector_idx, False)
MapGet(map, cell) ==
    IF cell.str /\ cell.v \in DOMAIN map THEN map[cell.v] ELSE FALSE

\* the dict appended to scanner_results (Dist is not modelled)
ScanRow(symbol, sector_idx, rows, map, nifty_ret) ==
    LET latest == rows[Len(rows)]
    IN [ Symbol |-> symbol,
         RSI |-> latest.RSI,
         Price |-> latest.Close,
         S_Bull |-> MapGet(map, sector_idx),
         RS_Trend |-> rs_trend_of(pct_change3(rows), nifty_ret) ]

RECURSIVE InsertByRSI(_, _)
\* r after every row that sorts before or equal to it; NaN sorts last
InsertByRSI(r, sorted) ==
    IF sorted = <<>> THEN <<r>>
    ELSE IF NumLe(sorted[1].RSI, r.RSI) \/ IsNaN(r.RSI)
         THEN <<sorted[1]>> \o InsertByRSI(r, Tail(sorted))
         ELSE <<r>> \o sorted
RECURSIVE sort_values(_)
sort_values(rows) ==
    IF rows = <<>> THEN <<>>
    ELSE InsertByRSI(rows[Len(rows)], sort_values(SubSeq(rows, 1, Len(rows) - 1)))
head(rows, n) == SubSeq(rows, 1, IF Len(rows) < n THEN Len(rows) ELSE n)

Header(bullish) == [line |-> "header", status |-> IF bullish THEN "BULLISH" ELSE "BEARISH"]
RowLine(s) ==
    [ line |-> "row", Symbol |-> s.Symbol, RSI |-> s.RSI,
      sector |-> IF s.S_Bull THEN "tick" ELSE "cross",
      trend |-> IF NumGt(s.RS_Trend, Int2Num(0)) THEN "LEADER" ELSE "LAGGARD" ]

Crash(site) ==
    /\ pc' = "crashed"
    /\ crash_site' = site

ScanInit ==
    /\ pc = "load"
    /\ csv \in {[ok |-> FALSE, rows |-> <<>>]} \cup {[ok |-> TRUE, rows |-> t] : t \in Tables}
    /\ symbols_data = <<>>
    /\ unique_sectors = <<>>
    /\ market_bullish = FALSE
    /\ nifty_3d_ret = NaNv
    /\ sector_bullish_map = <<>>
    /\ si = 1
    /\ idx = 1
    /\ scanner_results = <<>>
    /\ s_df = <<>>
    /\ log_entries = <<>>
    /\ saved = <<>>
    /\ crash_site = "none"
    /\ calls = <<>>
    /\ sym_trace = <<>>

\* quant.py:36-42
LoadUniverse ==
    /\ pc = "load"
    /\ IF csv.ok
       THEN /\ symbols_data' = drop_duplicates(csv.rows)
            /\ unique_sectors' = unique(drop_duplicates(csv.rows))
            /\ pc' = "market"
       ELSE /\ pc' = "csv_error"
            /\ UNCHANGED <<symbols_data, unique_sectors>>
    /\ UNCHANGED <<csv, market_bullish, nifty_3d_ret, sector_bullish_map, si, idx,
                   scanner_results, s_df, log_entries, saved, crash_site, calls,
                   sym_trace>>
    /\ UNCHANGED <<ivars, vvars>>

\* quant.py:45-48; an exception here is caught by nothing
CheckMarket ==
    /\ pc = "market"
    /\ \E r \in IndexResponses :
        /\ calls' = Append(calls, Call(NSEI, 100, r))
        /\ IF r.raise \/ r.len = 0
           THEN /\ Crash("market")
                /\ UNCHANGED <<market_bullish, nifty_3d_ret>>
           ELSE /\ market_bullish' = Regime(FrameOf(r).bars)
                /\ nifty_3d_ret' = pct_change3(FrameOf(r).bars)
                /\ pc' = "sectors"
                /\ UNCHANGED crash_site
    /\ UNCHANGED <<csv, symbols_data, unique_sectors, sector_bullish_map, si, idx,
                   scanner_results, s_df, log_entries, saved, sym_trace>>
    /\ UNCHANGED <<ivars, vvars>>

\* quant.py:52-57, one iteration
FetchSector ==
    /\ pc = "sectors"
    /\ si <= Len(unique_sectors)
    /\ LET sector_ticker == unique_sectors[si]
       IN \/ /\ ~sector_ticker.str \/ sector_ticker.v = <<"n", "a", "n">>
             /\ si' = si + 1
             /\ UNCHANGED <<pc, crash_site, calls, sector_bullish_map>>
          \/ /\ sector_ticker.str /\ sector_ticker.v # <<"n", "a", "n">>
             /\ \E r \in IndexResponses :
                 /\ calls' = Append(calls, Call(sector_ticker.v, 100, r))
                 /\ IF r.raise
                    THEN /\ Crash("sectors")
                         /\ UNCHANGED <<si, sector_bullish_map>>
                    ELSE /\ si' = si + 1
                         /\ sector_bullish_map' =
                              IF r.len = 0 THEN sector_bullish_map
                              ELSE [t \in DOMAIN sector_bullish_map \cup {sector_ticker.v} |->
                                      IF t = sector_ticker.v THEN Regime(FrameOf(r).bars)
                                      ELSE sector_bullish_map[t]]
                         /\ UNCHANGED <<pc, crash_site>>
    /\ UNCHANGED <<csv, symbols_data, unique_sectors, market_bullish, nifty_3d_ret, idx,
                   scanner_results, s_df, log_entries, saved, sym_trace>>
    /\ UNCHANGED <<ivars, vvars>>

\* quant.py:59-65
StartScan ==
    /\ pc = "sectors"
    /\ si > Len(unique_sectors)
    /\ log_entries' = <<Header(market_bullish)>>
    /\ pc' = "symbols"
    /\ UNCHANGED <<csv, symbols_data, unique_sectors, market_bullish, nifty_3d_ret,
                   sector_bullish_map, si, idx, scanner_results, s_df, saved, crash_site,
                   calls, sym_trace>>
    /\ UNCHANGED <<ivars, vvars>>

\* quant.py:70: what yf.download answers and what add_indicators makes of it
\* (df = Raised when either of the two raises)
SymbolAttempts ==
    { [resp |-> r, df |-> IF r.raise THEN Raised ELSE add_indicators(FrameOf(r))] :
        r \in SymbolResponses }

\* a handler that lets the exception through
SymbolExceptReraise ==
    /\ Crash("symbols")
    /\ UNCHANGED <<idx, scanner_results>>

\* quant.py:87  except: continue
SymbolExcept ==
    /\ idx' = idx + 1
    /\ UNCHANGED <<pc, crash_site, scanner_results>>

\* quant.py:67-87, one iteration
ProcessSymbol ==
    /\ pc = "symbols"
    /\ idx <= Len(symbols_data)
    /\ \E a \in SymbolAttempts :
        LET symbol == symbols_data[idx].Symbol
            sector_idx == symbols_data[idx].Sector_Index
            r == a.resp
            df == a.df
            appends == ~df.raised /\ df.rows # <<>>
        IN /\ calls' = Append(calls, Call(get_clean_symbol(symbol), 60, r))
           /\ sym_trace' = Append(sym_trace, [resp |-> r, df |-> df, appended |-> appends])
           /\ IF df.raised THEN SymbolExcept
              ELSE /\ idx' = idx + 1
                   /\ scanner_results' =
                        IF df.rows = <<>> THEN scanner_results
                        ELSE Append(scanner_results,
                                    ScanRow(symbol, sector_idx, df.rows,
                                            sector_bullish_map, nifty_3d_ret))
                   /\ UNCHANGED <<pc, crash_site>>
    /\ UNCHANGED <<csv, symbols_data, unique_sectors, market_bullish, nifty_3d_ret,
                   sector_bullish_map, si, s_df, log_entries, saved>>
    /\ UNCHANGED <<ivars, vvars>>

\* quant.py:90; sort_values(by="RSI") on a frame without columns raises
\* KeyError, and nothing catches it
Rank ==
    /\ pc = "symbols"
    /\ idx > Len(symbols_data)
    /\ IF scanner_results = <<>>
       THEN /\ Crash("rank")
            /\ UNCHANGED s_df
       ELSE /\ s_df' = head(sort_values(scanner_results), TopN)
            /\ pc' = "emit"
            /\ UNCHANGED crash_site
    /\ UNCHANGED <<csv, symbols_data, unique_sectors, market_bullish, nifty_3d_ret,
                   sector_bullish_map, si, idx, scanner_results, log_entries, saved,
                   calls, sym_trace>>
    /\ UNCHANGED <<ivars, vvars>>

\* quant.py:97-107
EmitLines ==
    /\ pc = "emit"
    /\ log_entries' = log_entries \o [k \in 1..Len(s_df) |-> RowLine(s_df[k])]
    /\ pc' = "save"
    /\ UNCHANGED <<csv, symbols_data, unique_sectors, market_bullish, nifty_3d_ret,
                   sector_bullish_map, si, idx, scanner_results, s_df, saved, crash_site,
                   calls, sym_trace>>
    /\ UNCHANGED <<ivars, vvars>>

\* quant.py:110-114
SaveLog ==
    /\ pc = "save"
    /\ saved' = log_entries
    /\ pc' = "done"
    /\ UNCHANGED <<csv, symbols_data, unique_sectors, market_bullish, nifty_3d_ret,
                   sector_bullish_map, si, idx, scanner_results, s_df, log_entries,
                   crash_site, calls, sym_trace>>
    /\ UNCHANGED <<ivars, vvars>>

ScanNext ==
    \/ LoadUniverse
    \/ CheckMarket
    \/ FetchSector
    \/ StartScan
    \/ ProcessSymbol
    \/ Rank
    \/ EmitLines
    \/ SaveLog

(***************************************************************************)
(* IndSpec: add_indicators on its own.  The price series are the walks     *)
(* that start at 100 and move by a per bar for the first k steps and by b  *)
(* per bar afterwards, a, b in {-1, 0, 1, 2}, of every length up to        *)
(* MaxBars.                                                                *)
(***************************************************************************)
Steps == {-1, 0, 1, 2}
Walk(len, k, a, b) ==
    [j \in 1..len |-> Bar(100 + (IF j - 1 <= k THEN a * (j - 1)
                                 ELSE a * k + b * (j - 1 - k)))]
WalkFrames ==
    { [cols |-> TRUE, bars |-> Walk(len, k, a, b)] :
        len \in 0..MaxBars, k \in {0, 3, 7}, a \in Steps, b \in Steps }

NoRow == [Close |-> 0, Date |-> 0, RSI |-> NaNv, SMA20 |-> NaNv, band |-> FALSE, ATR |-> NaNv]

IndStart ==
    /\ i_pc = "call"
    /\ i_df \in WalkFrames
    /\ i_out = Returned(<<>>)
    /\ i_latest = NoRow

CallAddIndicators ==
    /\ i_pc = "call"
    /\ i_out' = add_indicators(i_df)
    /\ i_pc' = "returned"
    /\ UNCHANGED <<i_df, i_latest>>
    /\ UNCHANGED <<svars, vvars>>

\* quant.py:72-74: the caller skips an empty frame and reads the last row
\* of any other.
ReadLatest ==
    /\ i_pc = "returned"
    /\ ~i_out.raised
    /\ Len(i_out.rows) > 0
    /\ i_latest' = i_out.rows[Len(i_out.rows)]
    /\ i_pc' = "read"
    /\ UNCHANGED <<i_df, i_out>>
    /\ UNCHANGED <<svars, vvars>>

IndNext == CallAddIndicators \/ ReadLatest

(***************************************************************************)
(* analyze_stock                                                           *)
(*                                                                         *)
(* The data source holds, for the ticker: the income statement (empty, or  *)
(* a table whose index may carry 'Diluted EPS' and 'Basic EPS' rows, each  *)
(* a series of annual values, newest column first, some of them null),     *)
(* info['trailingPE'] and info['dividendRate'] (each possibly absent) and  *)
(* a price history.  The price history of the model is flat: every close   *)
(* is v_src.price.                                                         *)
(***************************************************************************)
None == [some |-> FALSE, val |-> NaNv]
Some(x) == [some |-> TRUE, val |-> x]

EpsValues == {NaNv, Int2Num(-2), Int2Num(1), Int2Num(2), Int2Num(4)}
\* a row of the statement: the columns are the fiscal years, newest first
RowsOfLen(n) == { [k \in 1..n |-> [year |-> 2025 - k, eps |-> f[k]]] : f \in [1..n -> EpsValues] }
EpsRows == UNION { RowsOfLen(n) : n \in 0..MaxYears }
BasicRows == { <<[year |-> 2024, eps |-> Int2Num(2)], [year |-> 2023, eps |-> Int2Num(1)]>>,
               <<[year |-> 2024, eps |-> NaNv]>> }

Statements ==
    {[empty |-> TRUE, index |-> {}, diluted |-> <<>>, basic |-> <<>>]}
    \cup {[empty |-> FALSE, index |-> {}, diluted |-> <<>>, basic |-> <<>>]}
    \cup {[empty |-> FALSE, index |-> {"Diluted EPS"}, diluted |-> d, basic |-> <<>>] :
            d \in EpsRows}
    \cup {[empty |-> FALSE, index |-> {"Basic EPS"}, diluted |-> <<>>, basic |-> b] :
            b \in EpsRows}
    \cup {[empty |-> FALSE, index |-> {"Diluted EPS", "Basic EPS"}, diluted |-> d, basic |-> b] :
            d \in RowsOfLen(1) \cup RowsOfLen(2), b \in BasicRows}

Sources ==
    [ income_stmt : Statements,
      trailingPE : {None, Some(Int2Num(12))},
      dividendRate : {None, Some(Int2Num(3))},
      price : {30, 60} ]

RECURSIVE sort_index(_)
\* ascending by column label (the fiscal year)
sort_index(row) ==
    IF row = <<>> THEN <<>>
    ELSE LET m == CHOOSE k \in 1..Len(row) : \A j \in 1..Len(row) : row[k].year <= row[j].year
         IN <<row[m]>> \o sort_index(SubSeq(row, 1, m - 1) \o SubSeq(row, m + 1, Len(row)))
HasValue(c) == ~IsNaN(c.eps)
\* Series.dropna()
dropna_series(row) == SelectSeq(row, HasValue)

\* wb.py:38
InsufficientData_off_by_one(data) == Len(data) < 1
InsufficientData(data) == Len(data) < 2

(***************************************************************************)
(* np.polyfit(x, y, 1) with x = 0..n-1, in exact arithmetic:               *)
(*   slope = (n*Sxy - Sx*Sy) / (n*Sxx - Sx^2),                             *)
(*   intercept = (Sy - slope*Sx) / n.                                      *)
(***************************************************************************)
Pow(a, p) == IF p = 0 THEN 1 ELSE IF p = 1 THEN a ELSE a * a
RECURSIVE Moment(_, _, _, _)
\* the sum over the first n points of x^px * y^py
Moment(data, n, px, py) ==
    IF n = 0 THEN 0
    ELSE Pow(n - 1, px) * Pow(data[n].eps.n, py) + Moment(data, n - 1, px, py)
polyfit(data) ==
    LET n == Len(data)
        Sx == Moment(data, n, 1, 0)
        Sxx == Moment(data, n, 2, 0)
        Sy == Moment(data, n, 0, 1)
        Sxy == Moment(data, n, 1, 1)
        den == n * Sxx - Sx * Sx
        num == n * Sxy - Sx * Sy
    IN [ slope |-> Num(num, den),
         intercept |-> Num(Sy * den - num * Sx, n * den) ]

\* wb.py:57-58
Trendline(data) ==
    LET fit == polyfit(data)
        n == Len(data)
    IN [ slope |-> fit.slope,
         reg_start |-> fit.intercept,
         reg_end |-> Num(fit.slope.n * (n - 1) * n + fit.intercept.n, fit.intercept.d) ]

\* A growth rate is a constant number of basis points, or
\* (n/d) ** (1/k) - 1, which is kept as the triple.
ConstRate(bp) == [kind |-> "const", bp |-> bp, n |-> 1, d |-> 1, k |-> 1]
RootRate(ratio, k) == [kind |-> "root", bp |-> 0, n |-> ratio.n, d |-> ratio.d, k |-> k]
RateIsZero(c) == IF c.kind = "const" THEN c.bp = 0 ELSE c.n = c.d
Unset == ConstRate(-1)

\* the two defaults of wb.py:66 and wb.py:69 exchanged
cagr_of_defaults_swapped(t, n_points) ==
    IF NumGt(t.reg_start, Int2Num(0)) /\ NumGt(t.reg_end, Int2Num(0))
    THEN RootRate(Num(t.reg_end.n * t.reg_start.d, t.reg_end.d * t.reg_start.n), n_points - 1)
    ELSE IF NumGt(t.slope, Int2Num(0)) THEN ConstRate(0)
    ELSE ConstRate(500)

\* wb.py:62-72 (with integer earnings no value is NaN, so line 72 changes
\* nothing)
cagr_of(t, n_points) ==
    IF NumGt(t.reg_start, Int2Num(0)) /\ NumGt(t.reg_end, Int2Num(0))
    THEN RootRate(Num(t.reg_end.n * t.reg_start.d, t.reg_end.d * t.reg_start.n), n_points - 1)
    ELSE IF NumGt(t.slope, Int2Num(0)) THEN ConstRate(500)
    ELSE ConstRate(0)
cagr_message(t) ==
    IF NumGt(t.reg_start, Int2Num(0)) /\ NumGt(t.reg_end, Int2Num(0)) THEN <<>>
    ELSE IF NumGt(t.slope, Int2Num(0)) THEN <<"warn: trend positive, defaulting to 5%">>
    ELSE <<"warn: negative trend line, growth 0%">>

\* wb.py:88-93.  Reading the unbound local end_eps raises UnboundLocalError
\* inside the try, and the bare except answers 15.0.
fallback_pe(price, local_end_eps) ==
    IF ~local_end_eps.some THEN Int2Num(15)
    ELSE IF NumGt(local_end_eps.val, Int2Num(0))
         THEN Num(price * local_end_eps.val.d, local_end_eps.val.n)
         ELSE Int2Num(15)

\* wb.py:97-111 on a flat price history: the multiples price/eps of the
\* years with positive earnings, kept when 0 < pe < 150
PeOf(price, c) == Num(price * c.eps.d, c.eps.n)
KeepsPe(price, c) ==
    /\ NumGt(c.eps, Int2Num(0))
    /\ NumGt(PeOf(price, c), Int2Num(0))
    /\ NumGt(Int2Num(150), PeOf(price, c))
RECURSIVE pe_ratios(_, _)
pe_ratios(price, data) ==
    IF data = <<>> THEN <<>>
    ELSE (IF KeepsPe(price, data[1]) THEN <<PeOf(price, data[1])>> ELSE <<>>)
         \o pe_ratios(price, Tail(data))
NumAdd(x, y) == Num(x.n * y.d + y.n * x.d, x.d * y.d)
RECURSIVE NumSum(_)
NumSum(xs) == IF xs = <<>> THEN Int2Num(0) ELSE NumAdd(xs[1], NumSum(Tail(xs)))
\* np.mean
mean(xs) == Num(NumSum(xs).n, NumSum(xs).d * Len(xs))
NumMin(x, y) == IF NumLe(x, y) THEN x ELSE y

ValStart ==
    /\ v_pc = "start"
    /\ v_src \in Sources
    /\ eps_row = None
    /\ eps_data = <<>>
    /\ trend = [slope |-> NaNv, reg_start |-> NaNv, reg_end |-> NaNv]
    /\ cagr = Unset
    /\ current_pe = None
    /\ avg_pe = None
    /\ projected_pe = None
    /\ end_eps = None
    /\ verdict = "none"
    /\ out = <<>>
    /\ fetched = {}

\* wb.py:7-20
FetchFinancials ==
    /\ v_pc = "start"
    /\ fetched' = fetched \cup {"income_stmt"}
    /\ IF v_src.income_stmt.empty
       THEN /\ out' = out \o <<"analyzing", "fetching", "error: no financial data">>
            /\ v_pc' = "returned"
       ELSE /\ out' = out \o <<"analyzing", "fetching">>
            /\ v_pc' = "find_eps"
    /\ UNCHANGED <<v_src, eps_row, eps_data, trend, cagr, current_pe, avg_pe,
                   projected_pe, end_eps, verdict>>
    /\ UNCHANGED <<svars, ivars>>

\* wb.py:22-32
FindEpsRow ==
    /\ v_pc = "find_eps"
    /\ LET financials == v_src.income_stmt
       IN IF "Diluted EPS" \in financials.index
          THEN /\ eps_row' = [some |-> TRUE, val |-> financials.diluted]
               /\ v_pc' = "clean_eps"
               /\ UNCHANGED out
          ELSE IF "Basic EPS" \in financials.index
          THEN /\ eps_row' = [some |-> TRUE, val |-> financials.basic]
               /\ v_pc' = "clean_eps"
               /\ UNCHANGED out
          ELSE /\ out' = Append(out, "error: no EPS row")
               /\ v_pc' = "returned"
               /\ UNCHANGED eps_row
    /\ UNCHANGED <<v_src, eps_data, trend, cagr, current_pe, avg_pe, projected_pe,
                   end_eps, verdict, fetched>>
    /\ UNCHANGED <<svars, ivars>>

\* wb.py:35-43
CleanEps ==
    /\ v_pc = "clean_eps"
    /\ eps_data' = dropna_series(sort_index(eps_row.val))
    /\ IF InsufficientData(eps_data')
       THEN /\ out' = Append(out, "error: not enough data points")
            /\ v_pc' = "returned"
       ELSE /\ out' = Append(out, "found EPS data")
            /\ v_pc' = "cagr"
    /\ UNCHANGED <<v_src, eps_row, trend, cagr, current_pe, avg_pe, projected_pe,
                   end_eps, verdict, fetched>>
    /\ UNCHANGED <<svars, ivars>>

\* wb.py:46-73
ComputeCagr ==
    /\ v_pc = "cagr"
    /\ trend' = Trendline(eps_data)
    /\ cagr' = cagr_of(trend', Len(eps_data))
    /\ out' = out \o <<"trendline">> \o cagr_message(trend') \o <<"cagr">>
    /\ v_pc' = "pe"
    /\ UNCHANGED <<v_src, eps_row, eps_data, current_pe, avg_pe, projected_pe,
                   end_eps, verdict, fetched>>
    /\ UNCHANGED <<svars, ivars>>

\* wb.py:76-121
PeAnalysis ==
    /\ v_pc = "pe"
    /\ fetched' = fetched \cup {"info", "history"}
    /\ current_pe' = IF v_src.trailingPE.some THEN v_src.trailingPE
                     ELSE Some(fallback_pe(v_src.price, end_eps))
    /\ LET ratios == pe_ratios(v_src.price, eps_data)
       IN /\ avg_pe' = IF ratios # <<>> THEN Some(mean(ratios)) ELSE current_pe'
          /\ projected_pe' =
                IF NumGt(Int2Num(5), NumMin(current_pe'.val, avg_pe'.val))
                THEN Some(Int2Num(5))
                ELSE Some(NumMin(current_pe'.val, avg_pe'.val))
    /\ out' = Append(out, "pe analysis")
    /\ v_pc' = "project"
    /\ UNCHANGED <<v_src, eps_row, eps_data, trend, cagr, end_eps, verdict>>
    /\ UNCHANGED <<svars, ivars>>

\* wb.py:124-189.  The compounded amounts (future EPS, dividends, intrinsic
\* value) are not rational; the verdict, which compares them with the
\* price, is left open among its three values.
Project ==
    /\ v_pc = "project"
    /\ end_eps' = Some(eps_data[Len(eps_data)].eps)
    /\ fetched' = IF v_src.dividendRate.some THEN fetched ELSE fetched \cup {"dividends"}
    /\ \E v \in {"UNDERVALUED", "FAIRLY VALUED", "OVERVALUED"} :
        /\ verdict' = v
        /\ out' = out \o <<"valuation table", "verdict">>
    /\ v_pc' = "done"
    /\ UNCHANGED <<v_src, eps_row, eps_data, trend, cagr, current_pe, avg_pe,
                   projected_pe>>
    /\ UNCHANGED <<svars, ivars>>

ValNext ==
    \/ FetchFinancials
    \/ FindEpsRow
    \/ CleanEps
    \/ ComputeCagr
    \/ PeAnalysis
    \/ Project

ValIdle ==
    /\ v_pc = "idle"
    /\ v_src = [income_stmt |-> [empty |-> TRUE, index |-> {}, diluted |-> <<>>, basic |-> <<>>],
                trailingPE |-> None, dividendRate |-> None, price |-> 30]
    /\ eps_row = None
    /\ eps_data = <<>>
    /\ trend = [slope |-> NaNv, reg_start |-> NaNv, reg_end |-> NaNv]
    /\ cagr = Unset
    /\ current_pe = None
    /\ avg_pe = None
    /\ projected_pe = None
    /\ end_eps = None
    /\ verdict = "none"
    /\ out = <<>>
    /\ fetched = {}

(***************************************************************************)
(* Properties of run_pro_simulation (checked under Spec)                   *)
(***************************************************************************)
AfterLoop == pc \in {"emit", "save", "done"} \/ (pc = "crashed" /\ crash_site = "rank")
InLoop == pc = "symbols" \/ AfterLoop

\* the position in scanner_results of the row iteration i appended
RowIndex(i) == Cardinality({k \in 1..i : sym_trace[k].appended})

RECURSIVE RowsOfSurvivors(_)
\* the rows that the iterations 1..k which neither raised nor got an empty
\* frame make, each from its own frame alone
RowsOfSurvivors(k) ==
    IF k = 0 THEN <<>>
    ELSE LET t == sym_trace[k]
         IN IF t.df.raised \/ t.df.rows = <<>> THEN RowsOfSurvivors(k - 1)
            ELSE Append(RowsOfSurvivors(k - 1),
                        ScanRow(symbols_data[k].Symbol, symbols_data[k].Sector_Index,
                                t.df.rows, sector_bullish_map, nifty_3d_ret))

\* C1: an exception while processing one symbol (the fetch or the indicator
\* computation raises) aborts only that symbol: the run never leaves the
\* loop through it, every row of the universe is attempted, the failing
\* iteration appends nothing, and scanner_results is exactly the rows of
\* the other iterations, as they would be without the failing one.
C1_SymbolFailureIsolated ==
    /\ crash_site # "symbols"
    /\ InLoop =>
        /\ Len(sym_trace) = idx - 1
        /\ \A i \in 1..Len(sym_trace) : sym_trace[i].df.raised => ~sym_trace[i].appended
        /\ scanner_results = RowsOfSurvivors(Len(sym_trace))
    /\ AfterLoop => Len(sym_trace) = Len(symbols_data)

\* a finished run in which one iteration raised and a later one made a row
C1_Witness ==
    /\ pc = "done"
    /\ \E i, j \in 1..Len(sym_trace) :
        /\ i < j
        /\ sym_trace[i].df.raised
        /\ sym_trace[j].appended
        /\ scanner_results[RowIndex(j)].Symbol = symbols_data[j].Symbol

\* the requests of the sector loop (the first request is the market check)
SectorCalls == {k \in 2..Len(calls) : calls[k].period = 100}
FetchFailed(r) == r.raise \/ r.len = 0

\* C2: a sector ticker that fails to fetch or is not a string is skipped
\* without aborting the run: the run does not end in the sector loop, the
\* ticker gets no sector_bullish_map entry, and every row of a symbol of
\* that sector has S_Bull = False.
C2_SectorFailureSkipped ==
    /\ crash_site # "sectors"
    /\ \A k \in SectorCalls :
        FetchFailed(calls[k].resp) => calls[k].ticker \notin DOMAIN sector_bullish_map
    /\ \A i \in 1..Len(sym_trace) :
        LET cell == symbols_data[i].Sector_Index
        IN (sym_trace[i].appended /\
            (~cell.str \/ \E k \in SectorCalls :
                            calls[k].ticker = cell.v /\ FetchFailed(calls[k].resp)))
           => ~scanner_results[RowIndex(i)].S_Bull

\* C3 as first stated: within one run no ticker's history is requested twice, and a run
\* that reaches the ranking has requested the index, every string sector
\* ticker and every symbol's ticker.
C3_EachTickerFetchedOnce ==
    /\ \A i, j \in 1..Len(calls) : i # j => calls[i].ticker # calls[j].ticker
    /\ AfterLoop =>
        /\ \E k \in 1..Len(calls) : calls[k].ticker = NSEI
        /\ \A i \in 1..Len(symbols_data) :
            \E k \in 1..Len(calls) :
                calls[k].ticker = get_clean_symbol(symbols_data[i].Symbol)

SymbolCalls == {k \in 1..Len(calls) : calls[k].period = 60}
\* the k-th request of the symbol loop
SymbolCall(k) == calls[Len(calls) - Cardinality(SymbolCalls) + k]
StringSectors ==
    {csv.rows[k].Sector_Index.v : k \in {j \in 1..Len(csv.rows) : csv.rows[j].Sector_Index.str}}
DistinctRows == {csv.rows[k] : k \in 1..Len(csv.rows)}
\* the ticker quant.py:69 makes of every Symbol of the reference tables
CleanTicker == [s \in {r.Symbol : r \in TableRows} |-> get_clean_symbol(s)]

\* C3 as amended: no request is repeated for the same step and none is
\* retried.  The first request is for ^NSEI; the sector loop requests
\* pairwise distinct tickers, each a string Sector_Index of the table; the
\* k-th request of the symbol loop is for the k-th unique (Symbol,
\* Sector_Index) row; and a run that reaches the ranking has made exactly
\* one request for the index, one per distinct string sector ticker and one
\* per unique row.  (A ticker is then requested twice when ^NSEI is also a
\* Sector_Index value or when two rows have the same Symbol.)
C3_EachStepFetchedOnce ==
    LET nsec == Cardinality(SectorCalls)
        nsym == Len(calls) - 1 - nsec
        sectors == StringSectors
    IN  /\ Len(calls) >= 1 => calls[1].ticker = NSEI /\ calls[1].period = 100
        /\ \A k \in 2..Len(calls) : calls[k].period = 100 <=> k <= 1 + nsec
        /\ \A k \in 2..(1 + nsec) : calls[k].ticker \in sectors
        /\ \A j, k \in 2..(1 + nsec) : j # k => calls[j].ticker # calls[k].ticker
        /\ nsym <= Len(symbols_data)
        /\ \A k \in 1..nsym :
            /\ calls[1 + nsec + k].period = 60
            /\ calls[1 + nsec + k].ticker = CleanTicker[symbols_data[k].Symbol]
        /\ \A j, k \in 1..Len(symbols_data) : j # k => symbols_data[j] # symbols_data[k]
        /\ AfterLoop =>
            /\ nsec = Cardinality(sectors)
            /\ nsym = Cardinality(DistinctRows)

\* a finished run that requested ^NSEI twice and one symbol's ticker twice,
\* the first of them without success
C3_Witness ==
    /\ pc = "done"
    /\ \E k \in SectorCalls : calls[k].ticker = NSEI
    /\ Cardinality(SymbolCalls) = 2
    /\ SymbolCall(1).ticker = SymbolCall(2).ticker
    /\ FetchFailed(SymbolCall(1).resp)

IsSortedByRSI(rows) ==
    \A k \in 1..(Len(rows) - 1) : NumLe(rows[k].RSI, rows[k + 1].RSI)
Count(rows, r) == Cardinality({k \in 1..Len(rows) : rows[k] = r})

\* C4: whatever the fetch outcomes (also when no symbol survives), the
\* ranking does not end the run; the ranked frame is sorted ascending by
\* RSI, has min(10, k) rows taken from the k rows produced, none of them
\* with a higher RSI than a row left out; and the finished run has logged
\* one line per ranked row and written the log.
C4_RankedOutput ==
    /\ crash_site # "rank"
    /\ pc \in {"emit", "save", "done"} =>
        /\ IsSortedByRSI(s_df)
        /\ Len(s_df) <= TopN
        /\ Len(s_df) = (IF Len(scanner_results) < TopN THEN Len(scanner_results) ELSE TopN)
        /\ \A k \in 1..Len(s_df) : Count(s_df, s_df[k]) <= Count(scanner_results, s_df[k])
        /\ \A k \in 1..Len(scanner_results) :
            Count(s_df, scanner_results[k]) < Count(scanner_results, scanner_results[k])
            => \A m \in 1..Len(s_df) : NumLe(s_df[m].RSI, scanner_results[k].RSI)
    /\ pc = "done" =>
        /\ Len(log_entries) = 1 + Len(s_df)
        /\ saved = log_entries

\* the run ended with an uncaught exception in the statement of request k
EndedAtCall(k) ==
    pc = "crashed" /\ crash_site \in {"market", "sectors"} /\ k = Len(calls)

\* C5: an index history of fewer than 50 bars, the empty one included, does
\* not end the run and counts as bearish: after the market check
\* market_bullish is False, and the sector's entry, if any, is False.
C5_ShortIndexIsBearish ==
    /\ (Len(calls) >= 1 /\ ~calls[1].resp.raise /\ calls[1].resp.len < RegimeWindow)
        => /\ ~EndedAtCall(1)
           /\ ~market_bullish
    /\ \A k \in SectorCalls :
        (~calls[k].resp.raise /\ calls[k].resp.len < RegimeWindow)
        => /\ ~EndedAtCall(k)
           /\ ~MapGet(sector_bullish_map, StrCell(calls[k].ticker))

\* C10 (scan part and add_indicators part): a symbol whose history has
\* fewer than 20 bars (none included) gets an empty frame from
\* add_indicators, no exception, and appends no row; every ranked row
\* comes from an iteration whose history had at least 20 bars.
C10_ShortHistorySkipped ==
    /\ \A i \in 1..Len(sym_trace) :
        (~sym_trace[i].resp.raise /\ sym_trace[i].resp.len < MinBars)
        => /\ sym_trace[i].df = Returned(<<>>)
           /\ ~sym_trace[i].appended
    /\ Len(scanner_results) = RowIndex(Len(sym_trace))
    /\ \A m \in 1..Len(s_df) :
        \E i \in 1..Len(sym_trace) :
            /\ sym_trace[i].appended
            /\ sym_trace[i].resp.len >= MinBars
            /\ scanner_results[RowIndex(i)] = s_df[m]

\* a finished run with a 19-bar symbol that made no row beside one that did
C10_Witness ==
    /\ pc = "done"
    /\ \E i, j \in 1..Len(sym_trace) :
        /\ sym_trace[i].resp.len > 0
        /\ sym_trace[i].resp.len < MinBars
        /\ ~sym_trace[i].appended
        /\ sym_trace[j].appended
        /\ Len(s_df) = 1

(***************************************************************************)
(* Properties of analyze_stock (checked under ValSpec)                     *)
(***************************************************************************)
Printed(msg) == \E k \in 1..Len(out) : out[k] = msg
ErrorsPrinted == SelectSeq(out, LAMBDA m : m \in {"error: no financial data",
                                                  "error: no EPS row",
                                                  "error: not enough data points"})
\* the three input failures, read off the source's statement
NoStatement == v_src.income_stmt.empty
NoEpsRow == ~NoStatement /\ v_src.income_stmt.index = {}
ChosenRow ==
    IF "Diluted EPS" \in v_src.income_stmt.index THEN v_src.income_stmt.diluted
    ELSE v_src.income_stmt.basic
TooFewPoints ==
    /\ ~NoStatement
    /\ ~NoEpsRow
    /\ Cardinality({k \in 1..Len(ChosenRow) : ~IsNaN(ChosenRow[k].eps)}) < 2
NoPartialResult ==
    /\ cagr = Unset
    /\ current_pe = None
    /\ projected_pe = None
    /\ verdict = "none"
    /\ ~Printed("trendline") /\ ~Printed("cagr") /\ ~Printed("pe analysis")
    /\ ~Printed("valuation table") /\ ~Printed("verdict")
    /\ fetched \subseteq {"income_stmt"}

\* C6 as first stated: a fitted trend with a negative slope gives a growth rate of exactly
\* 0%, whatever the signs of the trendline's endpoints.
C6_NegativeSlopeZeroGrowth ==
    (v_pc \in {"pe", "project", "done"} /\ NumGt(Int2Num(0), trend.slope))
    => RateIsZero(cagr)

\* C6 as amended: with a negative slope the growth rate is exactly 0% when
\* a trendline endpoint is zero or negative; when both endpoints are
\* positive it is (end/start) ** (1/(n-1)) - 1, a negative rate.  Either
\* way the rate stays as computed through the projections.
C6_NegativeSlopeGrowth ==
    (v_pc \in {"pe", "project", "done"} /\ NumGt(Int2Num(0), trend.slope))
    => /\ trend = Trendline(eps_data)
       /\ IF NumGt(trend.reg_start, Int2Num(0)) /\ NumGt(trend.reg_end, Int2Num(0))
          THEN /\ cagr.kind = "root"
               /\ NumEq(Num(cagr.n, cagr.d),
                        Num(trend.reg_end.n * trend.reg_start.d,
                            trend.reg_end.d * trend.reg_start.n))
               /\ cagr.k = Len(eps_data) - 1
               /\ cagr.n < cagr.d
          ELSE cagr = ConstRate(0)

\* a finished valuation of a falling trend with a non-positive endpoint
C6_Witness ==
    /\ v_pc = "done"
    /\ NumGt(Int2Num(0), trend.slope)
    /\ ~NumGt(trend.reg_end, Int2Num(0))
    /\ Len(eps_data) = 3
    /\ RateIsZero(cagr)

\* C7: the current P/E is the trailing P/E when there is one; without one
\* it is latest close / latest earnings when the latest earnings are
\* positive, and 15.0 only when they are zero or negative.
C7_CurrentPE ==
    v_pc \in {"project", "done"} =>
        IF v_src.trailingPE.some THEN current_pe = v_src.trailingPE
        ELSE LET latest == eps_data[Len(eps_data)].eps
             IN IF NumGt(latest, Int2Num(0))
                THEN NumEq(current_pe.val, Num(v_src.price * latest.d, latest.n))
                ELSE NumEq(current_pe.val, Int2Num(15))

\* C9: with an empty income statement, with neither EPS row, or with fewer
\* than 2 non-null earnings points, analyze_stock prints that failure's own
\* message and no other error, returns there, and has then computed or
\* printed no growth rate, P/E, valuation or verdict and requested nothing
\* but the income statement.
C9_InputFailuresReturnEarly ==
    /\ (NoStatement \/ NoEpsRow \/ TooFewPoints)
        => /\ v_pc \in {"idle", "start", "find_eps", "clean_eps", "returned"}
           /\ NoPartialResult
    /\ v_pc = "returned" =>
        /\ NoPartialResult
        /\ NoStatement => ErrorsPrinted = <<"error: no financial data">>
        /\ NoEpsRow => ErrorsPrinted = <<"error: no EPS row">>
        /\ TooFewPoints => ErrorsPrinted = <<"error: not enough data points">>
    /\ v_pc = "done" => ErrorsPrinted = <<>> /\ ~TooFewPoints

\* the run has returned on a row that had two columns, one of them null
C9_Witness ==
    /\ v_pc = "returned"
    /\ TooFewPoints
    /\ Len(ChosenRow) = 2
    /\ Len(eps_data) = 1
    /\ Printed("error: not enough data points")

(***************************************************************************)
(* Properties of add_indicators (checked under IndSpec)                    *)
(***************************************************************************)
\* C8: every row of the input whose 14-period rolling loss is exactly 0
\* (rolling gain 0 or not) is in the output, with RSI = 100.  (Rows 1..19
\* are removed for the band warm-up whatever their RSI, so the rows looked
\* at are those from the 20th on.)
C8_ZeroLossRsi100 ==
    (i_pc # "call" /\ ~i_out.raised) =>
        \A j \in BandWindow..Len(i_df.bars) :
            RollSum("loss", i_df.bars, j, RsiWindow) = 0
            => \E k \in 1..Len(i_out.rows) :
                /\ i_out.rows[k].Date = j
                /\ NumEq(i_out.rows[k].RSI, Int2Num(100))

\* what the variables of one program hold while another one runs
IndIdle ==
    /\ i_pc = "idle"
    /\ i_df = EmptyFrame
    /\ i_out = Returned(<<>>)
    /\ i_latest = NoRow
ScanIdle ==
    /\ pc = "idle"
    /\ csv = [ok |-> FALSE, rows |-> <<>>]
    /\ symbols_data = <<>>
    /\ unique_sectors = <<>>
    /\ market_bullish = FALSE
    /\ nifty_3d_ret = NaNv
    /\ sector_bullish_map = <<>>
    /\ si = 1
    /\ idx = 1
    /\ scanner_results = <<>>
    /\ s_df = <<>>
    /\ log_entries = <<>>
    /\ saved = <<>>
    /\ crash_site = "none"
    /\ calls = <<>>
    /\ sym_trace = <<>>

Init == ScanInit /\ IndIdle /\ ValIdle
Next == ScanNext
Spec == Init /\ [][Next]_vars

IndInit == IndStart /\ ScanIdle /\ ValIdle
IndSpec == IndInit /\ [][IndNext]_vars

ValInit == ValStart /\ ScanIdle /\ IndIdle
ValSpec == ValInit /\ [][ValNext]_vars

====
